---- MODULE Spec2Model ----
(***************************************************************************)
(* Model of the hierarchical graph layout of dev-scope                     *)
(* (src/components/flow/CodeNode.tsx, class HierarchicalLayout and         *)
(* applyHierarchicalLayout).                                               *)
(*                                                                         *)
(* JavaScript values that may be absent are modelled as sequences of       *)
(* length at most one: <<>> is undefined, <<v>> is the value v.  Strings   *)
(* are sequences of one-character strings, so that split('/') and          *)
(* join('/') are computed character by character.  Node objects are        *)
(* mutated in place by the code; an object reference is modelled as the    *)
(* index of the node in the nodes array.  A JavaScript Map is a sequence   *)
(* of [key, val] entries in insertion order.                               *)
(***************************************************************************)
EXTENDS Integers, Sequences, FiniteSets, TLC

VARIABLES
    nodes,          \* this.nodes: the caller's node objects, decorated in place
    edges,          \* this.edges
    visited,        \* assignLevels: const visited = new Set<string>()
    queue,          \* assignLevels: const queue: {node, level}[]
    nodesByLevel,   \* private nodesByLevel: Map<number, LayoutNode[]>
    nodesByGroup,   \* private nodesByGroup: Map<string, LayoutNode[]>
    pc,             \* position of the running layout() call
    layoutCalls,    \* number of layout() calls made on the current instance
    discoveredVia,  \* history: for each node index, the parent index it was discovered from
    firstOut,       \* history: the decorated nodes returned by the first layout()
    firstEdges,     \* history: the edge list the first instance was constructed with
    reapplied,      \* history: applyHierarchicalLayout has run on decorated nodes
    graphData,      \* CodeflowVisualizer: the graphData prop
    flowNodes,      \* CodeflowVisualizer: the nodes state (useNodesState)
    viewLevel,      \* CodeflowVisualizer: the viewLevel state
    reactFlowInstance, \* CodeflowVisualizer: the reactFlowInstance state is set
    apiPc,          \* analyzeCodebase: position of the running call
    jobId,          \* analyzeCodebase: const jobId
    requests,       \* history: the requests the running call has sent, with their replies
    settled,        \* analyzeCodebase: how the promise of the last call settled
    projectPath,    \* Index: the projectPath state
    isAnalyzing,    \* Index: the isAnalyzing state
    analysisResult, \* Index: the analysisResult state
    apiStatus,      \* Index: the apiStatus state
    started         \* history: the last call of analyzeCodebase by handleAnalyze and its conditions

layoutVars == <<nodes, edges, visited, queue, nodesByLevel, nodesByGroup, pc,
                layoutCalls, discoveredVia, firstOut, firstEdges, reapplied>>

viewVars == <<graphData, flowNodes, viewLevel, reactFlowInstance>>

apiVars == <<apiPc, jobId, requests, settled>>

indexVars == <<projectPath, isAnalyzing, analysisResult, apiStatus, started>>

appVars == <<viewVars, apiVars, indexVars>>

vars == <<layoutVars, appVars>>

----------------------------------------------------------------------------
(* Bounds of the model *)

MaxNodes == 2
MaxEdges == 1
MaxDeepNodes == 9
MaxSegments == 3
MaxLayoutCalls == 2
MaxGraphNodes == 2
MaxPolls == 2
MaxPathLen == 2

----------------------------------------------------------------------------
(* JavaScript helpers *)

undefined == <<>>
Some(v) == <<v>>
IsDefined(o) == o # undefined
Val(o) == o[1]

Max(a, b) == IF a >= b THEN a ELSE b

\* o || d for a number-valued o: undefined and 0 are falsy
NumOr(o, d) == IF IsDefined(o) /\ Val(o) # 0 THEN Val(o) ELSE d

\* o || d for a string-valued o: undefined and '' are falsy
StrOr(o, d) == IF IsDefined(o) /\ Val(o) # <<>> THEN Val(o) ELSE d

Slash == "/"
Root == <<"r", "o", "o", "t">>

\* String.prototype.split('/'): always at least one segment
RECURSIVE Split(_)
Split(s) ==
    IF s = <<>> THEN << <<>> >>
    ELSE LET rest == Split(Tail(s)) IN
         IF Head(s) = Slash THEN << <<>> >> \o rest
         ELSE << <<Head(s)>> \o Head(rest) >> \o Tail(rest)

\* Array.prototype.join('/')
RECURSIVE Join(_)
Join(parts) ==
    IF parts = <<>> THEN <<>>
    ELSE IF Len(parts) = 1 THEN parts[1]
    ELSE parts[1] \o <<Slash>> \o Join(Tail(parts))

\* mutant: slice(1), which drops the first segment instead of the last
SliceButFirst(parts) == SubSeq(parts, 2, Len(parts))

\* Array.prototype.slice(0, -1)
SliceButLast(parts) == SubSeq(parts, 1, Len(parts) - 1)

\* Map helpers: a Map is a sequence of entries in insertion order
MapHas(m, k) == \E i \in 1..Len(m) : m[i].key = k
MapGet(m, k) == m[CHOOSE i \in 1..Len(m) : m[i].key = k].val
MapKeys(m) == [i \in 1..Len(m) |-> m[i].key]

\* if (!m.has(k)) m.set(k, []); m.get(k).push(v)
MapPush(m, k, v) ==
    IF MapHas(m, k)
    THEN [i \in 1..Len(m) |->
            IF m[i].key = k THEN [m[i] EXCEPT !.val = Append(@, v)] ELSE m[i]]
    ELSE Append(m, [key |-> k, val |-> <<v>>])

----------------------------------------------------------------------------
(* assignLevels *)

entryLevel == 0
entryImportance == 10
defaultLevel == 5
defaultImportance == 1

\* mutant: every node counts as an entry node
IsEntryAlways(n) == TRUE

\* metadata?.is_entry === true
IsEntry(n) == n.is_entry = TRUE

\* this.nodes.filter(node => metadata?.is_entry === true), as indices in order
RECURSIVE EntryNodesFrom(_, _)
EntryNodesFrom(ns, i) ==
    IF i > Len(ns) THEN <<>>
    ELSE (IF IsEntry(ns[i]) THEN <<i>> ELSE <<>>) \o EntryNodesFrom(ns, i + 1)

EntryNodes(ns) == EntryNodesFrom(ns, 1)

\* mutant: the entry nodes are queued but not added to visited
RECURSIVE SeedEntriesUnvisited(_, _, _)
SeedEntriesUnvisited(st, entries, i) ==
    IF i > Len(entries) THEN st
    ELSE LET n == entries[i] IN
         SeedEntriesUnvisited(
            [nodes   |-> [st.nodes EXCEPT ![n].level = Some(entryLevel),
                                          ![n].importance = Some(entryImportance)],
             queue   |-> Append(st.queue, [node |-> n, level |-> entryLevel]),
             visited |-> st.visited,
             via     |-> st.via],
            entries, i + 1)

\* entryNodes.forEach: level = 0, importance = 10, queue.push, visited.add
RECURSIVE SeedEntries(_, _, _)
SeedEntries(st, entries, i) ==
    IF i > Len(entries) THEN st
    ELSE LET n == entries[i] IN
         SeedEntries(
            [nodes   |-> [st.nodes EXCEPT ![n].level = Some(entryLevel),
                                          ![n].importance = Some(entryImportance)],
             queue   |-> Append(st.queue, [node |-> n, level |-> entryLevel]),
             visited |-> st.visited \cup {st.nodes[n].id},
             via     |-> st.via],
            entries, i + 1)

\* mutant: the decay uses the discovered node's own level
ChildImportanceOwnLevel(level) == Max(0, 10 - (level + 1) * 2)

\* mutant: the decay is not cut off at 0
ChildImportanceUnclamped(level) == 10 - level * 2

\* Math.max(0, 10 - level * 2), level being the dequeued parent's level
ChildImportance(level) == Max(0, 10 - level * 2)

\* mutant: find instead of filter, only the first edge out of the node is kept
ConnectedEdgesFirstOnly(es, id) ==
    IF \E k \in 1..Len(es) : es[k].source = id
    THEN <<es[CHOOSE k \in 1..Len(es) :
                es[k].source = id /\ \A j \in 1..(k - 1) : es[j].source # id]>>
    ELSE <<>>

\* this.edges.filter(edge => edge.source === currentNode.id)
RECURSIVE ConnectedEdgesFrom(_, _, _)
ConnectedEdgesFrom(es, id, i) ==
    IF i > Len(es) THEN <<>>
    ELSE (IF es[i].source = id THEN <<es[i]>> ELSE <<>>)
         \o ConnectedEdgesFrom(es, id, i + 1)

ConnectedEdges(es, id) == ConnectedEdgesFrom(es, id, 1)

\* mutant: an edge to an id no node carries is taken to lead to the first node
FindNodeOrFirst(ns, id) ==
    IF \E i \in 1..Len(ns) : ns[i].id = id
    THEN CHOOSE i \in 1..Len(ns) :
            ns[i].id = id /\ \A j \in 1..(i - 1) : ns[j].id # id
    ELSE 1

\* this.nodes.find(n => n.id === id): index of the first match, 0 when none
FindNode(ns, id) ==
    IF \E i \in 1..Len(ns) : ns[i].id = id
    THEN CHOOSE i \in 1..Len(ns) :
            ns[i].id = id /\ \A j \in 1..(i - 1) : ns[j].id # id
    ELSE 0

\* mutant: the discovered node is queued with the parent's level, not level + 1
RECURSIVE VisitEdgesParentLevel(_, _, _, _, _)
VisitEdgesParentLevel(st, conn, i, current, level) ==
    IF i > Len(conn) THEN st
    ELSE LET t == FindNode(st.nodes, conn[i].target) IN
         IF t # 0 /\ st.nodes[t].id \notin st.visited
         THEN VisitEdgesParentLevel(
                [nodes   |-> [st.nodes EXCEPT
                                 ![t].level = Some(level + 1),
                                 ![t].importance = Some(ChildImportance(level))],
                 queue   |-> Append(st.queue, [node |-> t, level |-> level]),
                 visited |-> st.visited \cup {st.nodes[t].id},
                 via     |-> [st.via EXCEPT ![t] = current]],
                conn, i + 1, current, level)
         ELSE VisitEdgesParentLevel(st, conn, i + 1, current, level)

\* connectedEdges.forEach(edge => ...) for the dequeued {currentNode, level}
\* mutant: a target that is already visited is leveled again (not queued again)
RECURSIVE VisitEdgesRelevel(_, _, _, _, _)
VisitEdgesRelevel(st, conn, i, current, level) ==
    IF i > Len(conn) THEN st
    ELSE LET t == FindNode(st.nodes, conn[i].target)
             leveled == [st.nodes EXCEPT
                            ![t].level = Some(level + 1),
                            ![t].importance = Some(ChildImportance(level))]
         IN
         IF t # 0 /\ st.nodes[t].id \notin st.visited
         THEN VisitEdgesRelevel(
                [nodes   |-> leveled,
                 queue   |-> Append(st.queue, [node |-> t, level |-> level + 1]),
                 visited |-> st.visited \cup {st.nodes[t].id},
                 via     |-> [st.via EXCEPT ![t] = current]],
                conn, i + 1, current, level)
         ELSE IF t # 0
         THEN VisitEdgesRelevel([st EXCEPT !.nodes = leveled], conn, i + 1,
                                current, level)
         ELSE VisitEdgesRelevel(st, conn, i + 1, current, level)

RECURSIVE VisitEdges(_, _, _, _, _)
VisitEdges(st, conn, i, current, level) ==
    IF i > Len(conn) THEN st
    ELSE LET t == FindNode(st.nodes, conn[i].target) IN
         IF t # 0 /\ st.nodes[t].id \notin st.visited
         THEN VisitEdges(
                [nodes   |-> [st.nodes EXCEPT
                                 ![t].level = Some(level + 1),
                                 ![t].importance = Some(ChildImportance(level))],
                 queue   |-> Append(st.queue, [node |-> t, level |-> level + 1]),
                 visited |-> st.visited \cup {st.nodes[t].id},
                 via     |-> [st.via EXCEPT ![t] = current]],
                conn, i + 1, current, level)
         ELSE VisitEdges(st, conn, i + 1, current, level)

\* mutant: the default pass sets the level and forgets the importance
AssignDefaultsNoImportance(ns, vis) ==
    [i \in 1..Len(ns) |->
        IF ns[i].id \notin vis
        THEN [ns[i] EXCEPT !.level = Some(defaultLevel)]
        ELSE ns[i]]

\* mutant: the default pass gives the importance of a node reached at level 5
AssignDefaultsAsReached(ns, vis) ==
    [i \in 1..Len(ns) |->
        IF ns[i].id \notin vis
        THEN [ns[i] EXCEPT !.level = Some(defaultLevel),
                           !.importance = Some(ChildImportance(defaultLevel - 1))]
        ELSE ns[i]]

\* this.nodes.forEach(node => if (!visited.has(node.id)) { level = 5; importance = 1 })
AssignDefaults(ns, vis) ==
    [i \in 1..Len(ns) |->
        IF ns[i].id \notin vis
        THEN [ns[i] EXCEPT !.level = Some(defaultLevel),
                           !.importance = Some(defaultImportance)]
        ELSE ns[i]]

----------------------------------------------------------------------------
(* groupNodes *)

\* const filePath = (node.data?.file as string) || ''
FilePath(n) == IF n.file.kind = "string" THEN n.file.chars ELSE <<>>

\* typeof filePath === 'string' ? filePath.split('/') : []
\* (a file that is no string and truthy stays as it is and has no parts)
PathParts(n) ==
    IF n.file.kind \in {"string", "undefined"} THEN Split(FilePath(n)) ELSE <<>>

\* pathParts.length > 1 ? pathParts.slice(0, -1).join('/') : 'root'
GroupOf(n) ==
    LET pathParts == PathParts(n) IN
    IF Len(pathParts) > 1 THEN Join(SliceButLast(pathParts)) ELSE Root

\* this.nodes.forEach(node => ...) of groupNodes
RECURSIVE GroupFrom(_, _)
GroupFrom(st, i) ==
    IF i > Len(st.nodes) THEN st
    ELSE LET g  == GroupOf(st.nodes[i])
             ns == [st.nodes EXCEPT ![i].group = Some(g)]
             level == NumOr(ns[i].level, 0)
             group == StrOr(ns[i].group, Root)
         IN GroupFrom([nodes   |-> ns,
                       byLevel |-> MapPush(st.byLevel, level, i),
                       byGroup |-> MapPush(st.byGroup, group, i)], i + 1)

----------------------------------------------------------------------------
(* calculatePositions *)

levelHeight == 300
nodeSpacing == 250
groupSpacing == 400
initialGlobalY == 50
initialLevelX == 50

\* Array.from(keys).sort((a, b) => a - b)
RECURSIVE InsertAscending(_, _)
InsertAscending(s, k) ==
    IF s = <<>> THEN <<k>>
    ELSE IF k < Head(s) THEN <<k>> \o s
    ELSE <<Head(s)>> \o InsertAscending(Tail(s), k)

\* mutant: the keys stay in the insertion order of the map
KeysUnsorted(s) == s

RECURSIVE SortAscending(_)
SortAscending(s) ==
    IF s = <<>> THEN <<>>
    ELSE InsertAscending(SortAscending(SubSeq(s, 1, Len(s) - 1)), s[Len(s)])

\* levelNodes.forEach(node => groupsAtLevel ... push(node))
RECURSIVE GroupsAtLevel(_, _, _, _)
GroupsAtLevel(ns, levelNodes, i, m) ==
    IF i > Len(levelNodes) THEN m
    ELSE GroupsAtLevel(ns, levelNodes, i + 1,
                       MapPush(m, StrOr(ns[levelNodes[i]].group, Root), levelNodes[i]))

\* mutant: the comparator orders by ascending importance
CompareAscending(ns, a, b) == NumOr(ns[a].importance, 0) - NumOr(ns[b].importance, 0)

\* the comparator (a, b) => (b.importance || 0) - (a.importance || 0)
Compare(ns, a, b) == NumOr(ns[b].importance, 0) - NumOr(ns[a].importance, 0)

\* groupNodes.sort(comparator): Array.prototype.sort is stable
RECURSIVE InsertSorted(_, _, _)
InsertSorted(ns, s, n) ==
    IF s = <<>> THEN <<n>>
    ELSE IF Compare(ns, Head(s), n) > 0 THEN <<n>> \o s
    ELSE <<Head(s)>> \o InsertSorted(ns, Tail(s), n)

RECURSIVE SortByImportance(_, _)
SortByImportance(ns, s) ==
    IF s = <<>> THEN <<>>
    ELSE InsertSorted(ns, SortByImportance(ns, SubSeq(s, 1, Len(s) - 1)), s[Len(s)])

\* mutant: x is levelX + index, the spacing factor is forgotten
RECURSIVE PlaceNodesUnspaced(_, _, _, _, _)
PlaceNodesUnspaced(ns, sorted, i, levelX, globalY) ==
    IF i > Len(sorted) THEN ns
    ELSE PlaceNodesUnspaced(
            [ns EXCEPT ![sorted[i]].position =
                Some([x |-> levelX + (i - 1), y |-> globalY])],
            sorted, i + 1, levelX, globalY)

\* groupNodes.forEach((node, index) => node.position = {x: levelX + index * nodeSpacing, y: globalY})
RECURSIVE PlaceNodes(_, _, _, _, _)
PlaceNodes(ns, sorted, i, levelX, globalY) ==
    IF i > Len(sorted) THEN ns
    ELSE PlaceNodes(
            [ns EXCEPT ![sorted[i]].position =
                Some([x |-> levelX + (i - 1) * nodeSpacing, y |-> globalY])],
            sorted, i + 1, levelX, globalY)

\* mutant: the cursor advances by groupSpacing whatever the size of the group
GroupAdvanceFixed(count) == groupSpacing

\* levelX += Math.max(groupNodes.length * nodeSpacing, groupSpacing)
GroupAdvance(count) == Max(count * nodeSpacing, groupSpacing)

\* Array.from(groupsAtLevel.entries()).forEach(([groupName, groupNodes]) => ...)
RECURSIVE PlaceGroups(_, _, _, _, _)
PlaceGroups(ns, groups, g, levelX, globalY) ==
    IF g > Len(groups) THEN ns
    ELSE LET sorted == SortByImportance(ns, groups[g].val) IN
         PlaceGroups(PlaceNodes(ns, sorted, 1, levelX, globalY),
                     groups, g + 1, levelX + GroupAdvance(Len(sorted)), globalY)

\* sortedLevels.forEach(level => ...)
RECURSIVE PlaceLevels(_, _, _, _, _)
PlaceLevels(ns, byLevel, sortedLevels, l, globalY) ==
    IF l > Len(sortedLevels) THEN ns
    ELSE LET levelNodes == MapGet(byLevel, sortedLevels[l])
             groupsAtLevel == GroupsAtLevel(ns, levelNodes, 1, <<>>)
         IN PlaceLevels(PlaceGroups(ns, groupsAtLevel, 1, initialLevelX, globalY),
                        byLevel, sortedLevels, l + 1, globalY + levelHeight)

\* mutant: the placed nodes are returned last node first
CalculatedPositionsReversed(ns, byLevel) ==
    LET placed == PlaceLevels(ns, byLevel, SortAscending(MapKeys(byLevel)), 1,
                              initialGlobalY)
    IN [i \in 1..Len(placed) |-> placed[Len(placed) + 1 - i]]

\* calculatePositions: the levels in ascending order, and return this.nodes
CalculatedPositions(ns, byLevel) ==
    PlaceLevels(ns, byLevel, SortAscending(MapKeys(byLevel)), 1, initialGlobalY)

----------------------------------------------------------------------------
(* Inputs: the node and edge sequences handed to the constructor *)

StringFile(chars) == [kind |-> "string", chars |-> chars]
MissingFile == [kind |-> "undefined", chars |-> <<>>]
NumberFile == [kind |-> "number", chars |-> <<>>]

\* a node as the caller supplies it: no level, group, importance; the position
\* the caller gave is not read by the layout and is modelled as absent
InputNode(id, file, entry) ==
    [id |-> id, file |-> file, is_entry |-> entry,
     level |-> undefined, group |-> undefined, importance |-> undefined,
     position |-> undefined]

\* the ids that no node carries
UnknownIds == {0}

SeqsUpTo(S, n) == UNION {[1..k -> S] : k \in 0..n}

\* 'a/b'
DefaultFile == StringFile(<<"a", Slash, "b">>)

\* general family: up to MaxNodes nodes with any entry flags, any sequence of
\* up to MaxEdges edges from a node to a node or to the unknown id
\* (self-loops, cycles, parallel edges and dangling edges included)
GeneralInput ==
    \E n \in 1..MaxNodes :
    \E e \in [1..n -> BOOLEAN] :
    \E es \in SeqsUpTo([source : 1..n, target : UnknownIds \cup 1..n], MaxEdges) :
        /\ nodes = [i \in 1..n |-> InputNode(i, DefaultFile, e[i])]
        /\ edges = es

\* the edges first -> first + step -> ... of a chain of len nodes
ChainEdges(first, len, step) ==
    [i \in 1..(len - 1) |->
        [source |-> first + (i - 1) * step, target |-> first + i * step]]

\* deep family: up to MaxDeepNodes nodes and a chain over all of them or all
\* but one, from the first node on or (backwards) from the last node on; the
\* head of the chain is an entry node; at most one extra: one more edge
\* between any two ids, known or not, listed first, or one more entry node,
\* or no entry node at all
DeepInput ==
    \E n \in 1..MaxDeepNodes :
    \E len \in {n - 1, n} \ {0} :
    \E up \in BOOLEAN :
    \E extra \in [kind : {"none", "noEntry"}, a : {0}, b : {0}]
                 \cup [kind : {"edge"}, a : UnknownIds \cup 1..n,
                                        b : UnknownIds \cup 1..n]
                 \cup [kind : {"entry"}, a : 1..n, b : {0}] :
        LET head == IF up THEN 1 ELSE n
            chain == ChainEdges(head, len, IF up THEN 1 ELSE -1)
        IN /\ nodes = [i \in 1..n |->
                         InputNode(i, DefaultFile,
                                   \/ (i = head /\ extra.kind # "noEntry")
                                   \/ (extra.kind = "entry" /\ i = extra.a))]
           /\ edges = IF extra.kind = "edge"
                      THEN <<[source |-> extra.a, target |-> extra.b]>> \o chain
                      ELSE chain

\* the path segments a file is built from: '' and 'a'
Segments == {<<>>, <<"a">>}

\* the files of the files family: missing, not a string, and every path of
\* up to MaxSegments segments joined with '/'
PathFiles ==
    {MissingFile, NumberFile}
    \cup {StringFile(Join(parts)) :
            parts \in UNION {[1..k -> Segments] : k \in 1..MaxSegments}}

\* the files of the second and third node of the files family:
\* 'a/b' (group 'a'), 'b' (group 'root') and '/b' (group '')
SiblingFiles == {DefaultFile, StringFile(<<"b">>), StringFile(<<Slash, "b">>)}

\* files family: three nodes, the first with any file and the others with a
\* sibling file; no entry node, the first node as entry node, or all three;
\* with or without the edge from the first to the second
FilesInput ==
    \E f1 \in PathFiles :
    \E f2 \in SiblingFiles, f3 \in SiblingFiles :
    \E entries \in {{}, {1}, {1, 2, 3}} :
    \E linked \in BOOLEAN :
        /\ nodes = <<InputNode(1, f1, 1 \in entries),
                     InputNode(2, f2, 2 \in entries),
                     InputNode(3, f3, 3 \in entries)>>
        /\ edges = IF linked THEN <<[source |-> 1, target |-> 2]>> ELSE <<>>

\* cyclic family: the ring 1 -> 2 -> ... -> n -> 1 over up to MaxNodes nodes
\* with any entry flags (for one node the ring is a self-loop), with or
\* without a self-loop on one of the nodes listed first, and with or without
\* every edge of the ring listed twice (parallel edges)
CyclicInput ==
    \E n \in 1..MaxNodes :
    \E e \in [1..n -> BOOLEAN] :
    \E loopAt \in 0..n :
    \E parallel \in BOOLEAN :
        LET ring == [i \in 1..n |-> [source |-> i, target |-> (i % n) + 1]]
            loop == IF loopAt = 0 THEN <<>>
                    ELSE <<[source |-> loopAt, target |-> loopAt]>>
        IN /\ nodes = [i \in 1..n |-> InputNode(i, DefaultFile, e[i])]
           /\ edges = loop \o ring \o (IF parallel THEN ring ELSE <<>>)

----------------------------------------------------------------------------
(* CodeflowVisualizer (the variant with view levels) *)

\* the buttons of the level controls
ViewLevels == {"system", "container", "component", "code", "all"}

\* useState('container')
initialViewLevel == "container"

\* a node of graphData: its id and its metadata?.c4_level (absent, or a level)
GraphNode(id, level) == [id |-> id, c4_level |-> level]

\* the graphData props of the model: none, or up to MaxGraphNodes nodes with
\* ids that may repeat and a c4_level that is absent, 'container' or 'code'
GraphDatas ==
    {undefined}
    \cup {Some(g) : g \in SeqsUpTo(
              {GraphNode(id, level) : id \in 1..MaxGraphNodes,
                                     level \in {undefined, Some("container"), Some("code")}},
              MaxGraphNodes)}

\* graphData.nodes.filter(n => !seen.has(n.id) && seen.add(n.id))
RECURSIVE Deduplicated(_, _)
Deduplicated(ns, seen) ==
    IF ns = <<>> THEN <<>>
    ELSE IF Head(ns).id \in seen THEN Deduplicated(Tail(ns), seen)
    ELSE <<Head(ns)>> \o Deduplicated(Tail(ns), seen \cup {Head(ns).id})

\* the effect on graphData: no nodes without data, else the deduplicated nodes
\* on a grid (the random offset of a grid position is not modelled: a
\* position is the rule that set it and the index it was set for)
FlowNodesOf(g) ==
    IF ~IsDefined(g) THEN <<>>
    ELSE LET kept == Deduplicated(Val(g), {}) IN
         [i \in 1..Len(kept) |->
            [id |-> kept[i].id, c4_level |-> kept[i].c4_level,
             position |-> [rule |-> "grid", index |-> i - 1, of |-> 0]]]

\* nodes.filter(n => viewLevel === 'all' || n.data.metadata?.c4_level === viewLevel)
RECURSIVE FilteredNodes(_, _)
FilteredNodes(ns, level) ==
    IF ns = <<>> THEN <<>>
    ELSE (IF level = "all" \/ Head(ns).c4_level = Some(level)
          THEN <<Head(ns)>> ELSE <<>>)
         \o FilteredNodes(Tail(ns), level)

\* filteredNodes.map((node, index) => ({...node, position: on the circle}))
LayoutedNodes(filtered) ==
    [i \in 1..Len(filtered) |->
        [filtered[i] EXCEPT !.position =
            [rule |-> "circle", index |-> i - 1, of |-> Len(filtered)]]]

\* the component is mounted on a graphData prop and its effect has run
ViewMounted ==
    /\ graphData \in GraphDatas
    /\ flowNodes = FlowNodesOf(graphData)
    /\ viewLevel = initialViewLevel
    /\ reactFlowInstance = FALSE

\* no component is mounted
ViewAtRest ==
    /\ graphData = undefined
    /\ flowNodes = <<>>
    /\ viewLevel = initialViewLevel
    /\ reactFlowInstance = FALSE

\* onClick={() => setViewLevel(level)}
SetViewLevel ==
    /\ \E level \in ViewLevels : viewLevel' = level
    /\ UNCHANGED <<graphData, flowNodes, reactFlowInstance>>
    /\ UNCHANGED <<layoutVars, apiVars, indexVars>>

\* onInit: setReactFlowInstance(reactFlowInstance)
OnInit ==
    /\ ~reactFlowInstance
    /\ reactFlowInstance' = TRUE
    /\ UNCHANGED <<graphData, flowNodes, viewLevel>>
    /\ UNCHANGED <<layoutVars, apiVars, indexVars>>

\* handleLayout: setNodes(layoutedNodes)
HandleLayout ==
    /\ reactFlowInstance
    /\ FilteredNodes(flowNodes, viewLevel) # <<>>
    /\ flowNodes' = LayoutedNodes(FilteredNodes(flowNodes, viewLevel))
    /\ UNCHANGED <<graphData, viewLevel, reactFlowInstance>>
    /\ UNCHANGED <<layoutVars, apiVars, indexVars>>

\* handleFitView: only the viewport of the instance moves
HandleFitView ==
    /\ reactFlowInstance
    /\ UNCHANGED viewVars
    /\ UNCHANGED <<layoutVars, apiVars, indexVars>>

----------------------------------------------------------------------------
(* analyzeCodebase (services/api.ts) *)

\* the job ids and the results the backend may send
JobIds == {"job1", "job2"}
Results == {"result1", "result2"}

\* the error texts a failed response may carry in data.error
ServerErrors == {undefined, Some(""), Some("bad path")}

\* how a request ends: a response with data, a response whose data is null,
\* or a rejection with an axios error (with or without response.data.error)
Reply(kind, job_id, status, result, error) ==
    [kind |-> kind, job_id |-> job_id, status |-> status, result |-> result,
     error |-> error]

FailedReplies ==
    {Reply("noData", undefined, "", undefined, undefined)}
    \cup {Reply("axiosError", undefined, "", undefined, err) : err \in ServerErrors}

\* the replies to POST /parse: data.job_id may be missing
ParseReplies ==
    FailedReplies
    \cup {Reply("data", id, "", undefined, undefined) :
            id \in {undefined} \cup {Some(j) : j \in JobIds}}

\* the replies to GET /status/<jobId>: data.result may be missing
StatusReplies ==
    FailedReplies
    \cup {Reply("data", undefined, "pending", undefined, undefined),
          Reply("data", undefined, "failed", undefined, undefined)}
    \cup {Reply("data", undefined, "completed", res, undefined) :
            res \in {undefined} \cup {Some(r) : r \in Results}}

\* a thrown value: an axios error with its response.data.error, or another error
AxiosError(error) == [axios |-> TRUE, error |-> error, message |-> ""]
OtherError(message) == [axios |-> FALSE, error |-> undefined, message |-> message]

\* error.response?.data?.error || "Failed to analyze codebase"
MessageOr(o, d) == IF IsDefined(o) /\ Val(o) # "" THEN Val(o) ELSE d

Resolved(value) == [kind |-> "resolved", value |-> value, message |-> ""]
Rejected(message) == [kind |-> "rejected", value |-> undefined, message |-> message]
Retry == [kind |-> "retry", value |-> undefined, message |-> ""]

\* the catch block: what analyzeCodebase rejects with for a thrown value
Caught(thrown) ==
    IF thrown.axios
    THEN Rejected(MessageOr(thrown.error, "Failed to analyze codebase"))
    ELSE Rejected("Network error occurred")

\* what a request that did not bring data throws inside the try block
\* (reading a property of null data is a TypeError)
Thrown(reply) ==
    IF reply.kind = "axiosError" THEN AxiosError(reply.error)
    ELSE OtherError("Cannot read properties of null")

\* mutant: a poll that returns 'failed' is followed by another poll
PollOutcomeRetryOnFailed(reply) ==
    IF reply.kind # "data" THEN Caught(Thrown(reply))
    ELSE IF reply.status = "completed" THEN Resolved(reply.result)
    ELSE Retry

\* one round of while (true): return on 'completed', throw on 'failed' (and
\* the throw passes through the catch block), else wait and poll again
PollOutcome(reply) ==
    IF reply.kind # "data" THEN Caught(Thrown(reply))
    ELSE IF reply.status = "completed" THEN Resolved(reply.result)
    ELSE IF reply.status = "failed" THEN Caught(OtherError("Analysis failed"))
    ELSE Retry

\* a request as sent, and as answered
Request(method, job) == [method |-> method, job |-> job, reply |-> undefined]
Answered(log, reply) == [log EXCEPT ![Len(log)].reply = Some(reply)]

\* the GET requests of a log
Polls(log) == {k \in 1..Len(log) : log[k].method = "GET"}

\* no call is running and none has run
ApiAtRest ==
    /\ apiPc = "idle"
    /\ jobId = undefined
    /\ requests = <<>>
    /\ settled = undefined

----------------------------------------------------------------------------
(* The Index page *)

Space == " "

\* the texts of the path input: up to MaxPathLen characters, blank or not
ProjectPaths == SeqsUpTo({Space, "p"}, MaxPathLen)

RECURSIVE TrimStart(_)
TrimStart(s) == IF s # <<>> /\ Head(s) = Space THEN TrimStart(Tail(s)) ELSE s

RECURSIVE TrimEnd(_)
TrimEnd(s) ==
    IF s # <<>> /\ s[Len(s)] = Space THEN TrimEnd(SubSeq(s, 1, Len(s) - 1)) ELSE s

\* String.prototype.trim
Trim(s) == TrimEnd(TrimStart(s))

\* the page is mounted: useState initial values, checkApi is under way
IndexMounted ==
    /\ projectPath = <<>>
    /\ isAnalyzing = FALSE
    /\ analysisResult = undefined
    /\ apiStatus = "checking"
    /\ started = undefined

\* the form is rendered only while analysisResult is falsy
FormShown == ~IsDefined(analysisResult)

\* checkApi: setApiStatus(isHealthy ? 'online' : 'offline')
CheckApi ==
    /\ apiStatus = "checking"
    /\ \E isHealthy \in BOOLEAN :
          apiStatus' = IF isHealthy THEN "online" ELSE "offline"
    /\ UNCHANGED <<projectPath, isAnalyzing, analysisResult, started, apiVars>>
    /\ UNCHANGED <<layoutVars, viewVars>>

\* onChange={(e) => setProjectPath(e.target.value)}
SetProjectPath ==
    /\ FormShown
    /\ \E value \in ProjectPaths : projectPath' = value
    /\ UNCHANGED <<isAnalyzing, analysisResult, apiStatus, started, apiVars>>
    /\ UNCHANGED <<layoutVars, viewVars>>

\* handleAnalyze up to its await: nothing but a toast for a blank path, else
\* setIsAnalyzing(true) and analyzeCodebase(projectPath.trim()), which sends
\* POST /parse at once
HandleAnalyze(trigger) ==
    IF Trim(projectPath) = <<>>
    THEN UNCHANGED <<indexVars, apiVars>>
    ELSE /\ isAnalyzing' = TRUE
         /\ started' = Some([trigger |-> trigger, apiStatus |-> apiStatus,
                              busy |-> isAnalyzing \/ apiPc # "idle",
                              folderPath |-> Trim(projectPath)])
         /\ apiPc' = "post"
         /\ jobId' = undefined
         /\ requests' = <<Request("POST", undefined)>>
         /\ settled' = undefined
         /\ UNCHANGED <<projectPath, analysisResult, apiStatus>>

\* the Analyze button: disabled={isAnalyzing || apiStatus !== 'online'}
ClickAnalyze ==
    /\ FormShown
    /\ ~(isAnalyzing \/ apiStatus # "online")
    /\ HandleAnalyze("button")
    /\ UNCHANGED <<layoutVars, viewVars>>

\* onKeyDown: e.key === 'Enter' && !isAnalyzing && handleAnalyze()
PressEnter ==
    /\ FormShown
    /\ ~isAnalyzing
    /\ HandleAnalyze("enter")
    /\ UNCHANGED <<layoutVars, viewVars>>

\* the promise of analyzeCodebase settles and handleAnalyze resumes:
\* setAnalysisResult(result) on success, setIsAnalyzing(false) in any case
Settle(outcome) ==
    /\ settled' = Some(outcome)
    /\ apiPc' = "idle"
    /\ isAnalyzing' = FALSE
    /\ analysisResult' = IF outcome.kind = "resolved" THEN outcome.value
                         ELSE analysisResult

\* the reply to POST /parse arrives: jobId is read and the first poll is sent,
\* or the catch block rejects
ParseReplied ==
    /\ apiPc = "post"
    /\ \E reply \in ParseReplies :
          IF reply.kind = "data"
          THEN /\ jobId' = reply.job_id
               /\ apiPc' = "get"
               /\ requests' = Append(Answered(requests, reply),
                                     Request("GET", reply.job_id))
               /\ UNCHANGED <<settled, isAnalyzing, analysisResult>>
          ELSE /\ requests' = Answered(requests, reply)
               /\ Settle(Caught(Thrown(reply)))
               /\ UNCHANGED jobId
    /\ UNCHANGED <<projectPath, apiStatus, started>>
    /\ UNCHANGED <<layoutVars, viewVars>>

\* the reply to GET /status/<jobId> arrives (after MaxPolls polls the backend
\* no longer answers 'pending')
StatusReplied ==
    /\ apiPc = "get"
    /\ \E reply \in StatusReplies :
          LET outcome == PollOutcome(reply) IN
          /\ outcome.kind = "retry" => Cardinality(Polls(requests)) < MaxPolls
          /\ requests' = Answered(requests, reply)
          /\ IF outcome.kind = "retry"
             THEN /\ apiPc' = "wait"
                  /\ UNCHANGED <<settled, isAnalyzing, analysisResult>>
             ELSE Settle(outcome)
    /\ UNCHANGED <<jobId, projectPath, apiStatus, started>>
    /\ UNCHANGED <<layoutVars, viewVars>>

\* the 2000 ms timer fires and the next poll is sent
PollAgain ==
    /\ apiPc = "wait"
    /\ apiPc' = "get"
    /\ requests' = Append(requests, Request("GET", jobId))
    /\ UNCHANGED <<jobId, settled, indexVars>>
    /\ UNCHANGED <<layoutVars, viewVars>>

\* handleReset: setAnalysisResult(null), setProjectPath('')
HandleReset ==
    /\ ~FormShown
    /\ analysisResult' = undefined
    /\ projectPath' = <<>>
    /\ UNCHANGED <<isAnalyzing, apiStatus, started, apiVars>>
    /\ UNCHANGED <<layoutVars, viewVars>>

\* nothing of the application around the layout is in use
AppAtRest == ViewAtRest /\ ApiAtRest /\ IndexMounted

\* no layout has been constructed
LayoutAtRest ==
    /\ nodes = <<>>
    /\ edges = <<>>
    /\ visited = {}
    /\ queue = <<>>
    /\ nodesByLevel = <<>>
    /\ nodesByGroup = <<>>
    /\ pc = "idle"
    /\ layoutCalls = 0
    /\ discoveredVia = <<>>
    /\ firstOut = undefined
    /\ firstEdges = <<>>
    /\ reapplied = FALSE

----------------------------------------------------------------------------
(* The state machine *)

Init ==
    /\ GeneralInput \/ DeepInput \/ FilesInput
    /\ visited = {}
    /\ queue = <<>>
    /\ nodesByLevel = <<>>
    /\ nodesByGroup = <<>>
    /\ pc = "idle"
    /\ layoutCalls = 0
    /\ discoveredVia = [i \in 1..Len(nodes) |-> 0]
    /\ firstOut = undefined
    /\ firstEdges = edges
    /\ reapplied = FALSE
    /\ AppAtRest

\* layout() up to the end of entryNodes.forEach in assignLevels
BeginLayout ==
    LET st == SeedEntries([nodes |-> nodes, queue |-> <<>>, visited |-> {},
                           via |-> [i \in 1..Len(nodes) |-> 0]],
                          EntryNodes(nodes), 1)
    IN /\ nodes' = st.nodes
       /\ queue' = st.queue
       /\ visited' = st.visited
       /\ discoveredVia' = st.via
       /\ pc' = "bfs"

\* mutant: the two index maps are shared by all instances and never emptied
ApplySharingIndices ==
    /\ pc = "idle"
    /\ layoutCalls' = 1
    /\ BeginLayout
    /\ reapplied' = IsDefined(firstOut)
    /\ UNCHANGED <<edges, firstEdges, appVars, nodesByLevel, nodesByGroup, firstOut>>

\* applyHierarchicalLayout(nodes, edges): a new instance, then layout()
ApplyHierarchicalLayout ==
    /\ pc = "idle"
    /\ nodesByLevel' = <<>>
    /\ nodesByGroup' = <<>>
    /\ layoutCalls' = 1
    /\ BeginLayout
    /\ reapplied' = IsDefined(firstOut)
    /\ UNCHANGED <<edges, firstEdges, appVars, firstOut>>

\* layout() called again on the instance that has already laid out
LayoutAgain ==
    /\ pc = "idle"
    /\ layoutCalls >= 1
    /\ layoutCalls < MaxLayoutCalls
    /\ layoutCalls' = layoutCalls + 1
    /\ BeginLayout
    /\ UNCHANGED <<edges, firstEdges, appVars, nodesByLevel, nodesByGroup, firstOut, reapplied>>

\* mutant: the head of the queue is read and left in the queue
BfsStepWithoutShift ==
    /\ pc = "bfs"
    /\ queue # <<>>
    /\ LET current == Head(queue).node
           level == Head(queue).level
           st == VisitEdges([nodes |-> nodes, queue |-> queue,
                             visited |-> visited, via |-> discoveredVia],
                            ConnectedEdges(edges, nodes[current].id), 1,
                            current, level)
       IN /\ nodes' = st.nodes
          /\ queue' = st.queue
          /\ visited' = st.visited
          /\ discoveredVia' = st.via
    /\ UNCHANGED <<edges, firstEdges, appVars, nodesByLevel, nodesByGroup, pc, layoutCalls, firstOut,
                   reapplied>>

\* one iteration of while (queue.length > 0)
BfsStep ==
    /\ pc = "bfs"
    /\ queue # <<>>
    /\ LET current == Head(queue).node
           level == Head(queue).level
           st == VisitEdges([nodes |-> nodes, queue |-> Tail(queue),
                             visited |-> visited, via |-> discoveredVia],
                            ConnectedEdges(edges, nodes[current].id), 1,
                            current, level)
       IN /\ nodes' = st.nodes
          /\ queue' = st.queue
          /\ visited' = st.visited
          /\ discoveredVia' = st.via
    /\ UNCHANGED <<edges, firstEdges, appVars, nodesByLevel, nodesByGroup, pc, layoutCalls, firstOut,
                   reapplied>>

\* the queue is empty: default level for unvisited nodes, assignLevels returns
AssignDefaultLevels ==
    /\ pc = "bfs"
    /\ queue = <<>>
    /\ nodes' = AssignDefaults(nodes, visited)
    /\ pc' = "groupNodes"
    /\ UNCHANGED <<edges, firstEdges, appVars, visited, queue, nodesByLevel, nodesByGroup, layoutCalls,
                   discoveredVia, firstOut, reapplied>>

GroupNodes ==
    /\ pc = "groupNodes"
    /\ LET st == GroupFrom([nodes |-> nodes, byLevel |-> nodesByLevel,
                            byGroup |-> nodesByGroup], 1)
       IN /\ nodes' = st.nodes
          /\ nodesByLevel' = st.byLevel
          /\ nodesByGroup' = st.byGroup
    /\ pc' = "calculatePositions"
    /\ UNCHANGED <<edges, firstEdges, appVars, visited, queue, layoutCalls, discoveredVia, firstOut,
                   reapplied>>

\* calculatePositions, and layout() returns this.nodes
CalculatePositions ==
    /\ pc = "calculatePositions"
    /\ nodes' = CalculatedPositions(nodes, nodesByLevel)
    /\ pc' = "idle"
    /\ firstOut' = IF IsDefined(firstOut) THEN firstOut ELSE Some(nodes')
    /\ UNCHANGED <<edges, firstEdges, appVars, visited, queue, nodesByLevel, nodesByGroup, layoutCalls,
                   discoveredVia, reapplied>>

\* layout() has returned at least once and no call is running
Returned == pc = "idle" /\ layoutCalls >= 1

\* Array.prototype.reverse on a copy
Reverse(s) == [i \in 1..Len(s) |-> s[Len(s) + 1 - i]]

\* the constructor's field initialisers, for an instance built on ns
Constructed(ns) ==
    /\ visited' = {}
    /\ queue' = <<>>
    /\ nodesByLevel' = <<>>
    /\ nodesByGroup' = <<>>
    /\ pc' = "idle"
    /\ layoutCalls' = 0
    /\ discoveredVia' = [i \in 1..Len(ns) |-> 0]

\* after a layout the caller lists the same node objects and the same edges
\* in another order (either list reversed) and constructs a new instance
ConstructReordered ==
    /\ Returned
    /\ \E reverseNodes \in BOOLEAN, reverseEdges \in BOOLEAN :
          /\ reverseNodes \/ reverseEdges
          /\ nodes' = IF reverseNodes THEN Reverse(nodes) ELSE nodes
          /\ edges' = IF reverseEdges THEN Reverse(edges) ELSE edges
    /\ Constructed(nodes')
    /\ UNCHANGED <<firstOut, firstEdges, appVars, reapplied>>

\* an edge with both endpoints among the ids of ns
IsKnownEdge(ns, e) ==
    /\ \E i \in 1..Len(ns) : ns[i].id = e.source
    /\ \E i \in 1..Len(ns) : ns[i].id = e.target

\* es without the edges that have an endpoint no node of ns carries
RECURSIVE WithoutDanglingEdges(_, _)
WithoutDanglingEdges(ns, es) ==
    IF es = <<>> THEN <<>>
    ELSE (IF IsKnownEdge(ns, Head(es)) THEN <<Head(es)>> ELSE <<>>)
         \o WithoutDanglingEdges(ns, Tail(es))

\* after a layout the caller removes the edges to or from unknown ids and
\* constructs a new instance
ConstructPruned ==
    /\ Returned
    /\ edges' = WithoutDanglingEdges(nodes, edges)
    /\ edges' # edges
    /\ Constructed(nodes)
    /\ UNCHANGED <<nodes, firstOut, firstEdges, appVars, reapplied>>

Next ==
    \/ ApplyHierarchicalLayout
    \/ LayoutAgain
    \/ BfsStep
    \/ AssignDefaultLevels
    \/ GroupNodes
    \/ CalculatePositions

Spec == Init /\ [][Next]_vars

\* applyHierarchicalLayout called again by a caller that may reorder the two
\* lists or drop the dangling edges between the calls
NextVariant ==
    \/ ApplyHierarchicalLayout
    \/ BfsStep
    \/ AssignDefaultLevels
    \/ GroupNodes
    \/ CalculatePositions
    \/ ConstructReordered
    \/ ConstructPruned

\* layout() is synchronous: once called, each step of its loop and each of
\* its phases is taken as soon as it is the next one; the caller is not
\* obliged to call at all.  groupNodes and calculatePositions are enabled
\* exactly when pc names them and always change pc, so weak fairness of
\* either is that pc does not name it forever.
Running ==
    /\ WF_vars(BfsStep)
    /\ WF_vars(AssignDefaultLevels)
    /\ []<>(pc # "groupNodes")
    /\ []<>(pc # "calculatePositions")

\* an instance constructed on a graph of the cyclic or of the general family
InitRunning ==
    /\ CyclicInput \/ GeneralInput
    /\ visited = {}
    /\ queue = <<>>
    /\ nodesByLevel = <<>>
    /\ nodesByGroup = <<>>
    /\ pc = "idle"
    /\ layoutCalls = 0
    /\ discoveredVia = [i \in 1..Len(nodes) |-> 0]
    /\ firstOut = undefined
    /\ firstEdges = edges
    /\ reapplied = FALSE
    /\ AppAtRest

SpecRunning == InitRunning /\ [][Next]_vars /\ Running

SpecVariant == Init /\ [][NextVariant]_vars

\* the visualizer, mounted on some graphData, and its buttons
InitView == LayoutAtRest /\ ViewMounted /\ ApiAtRest /\ IndexMounted

NextView ==
    \/ SetViewLevel
    \/ OnInit
    \/ HandleLayout
    \/ HandleFitView

SpecView == InitView /\ [][NextView]_vars

\* the Index page with the analyses it starts, up to the point where the
\* visualizer is shown
InitIndex == LayoutAtRest /\ ViewAtRest /\ ApiAtRest /\ IndexMounted

NextIndex ==
    \/ CheckApi
    \/ SetProjectPath
    \/ ClickAnalyze
    \/ PressEnter
    \/ ParseReplied
    \/ StatusReplied
    \/ PollAgain
    \/ HandleReset

SpecIndex == InitIndex /\ [][NextIndex]_vars


----------------------------------------------------------------------------
(* Graph notions the claims are stated with, computed from the input alone *)

NodeIds == {nodes[i].id : i \in 1..Len(nodes)}
EntryIds == {nodes[i].id : i \in {j \in 1..Len(nodes) : nodes[j].is_entry}}

\* the edges whose two endpoints are ids of nodes
KnownEdges ==
    {e \in {edges[k] : k \in 1..Len(edges)} : e.source \in NodeIds /\ e.target \in NodeIds}

\* the ids one directed edge away from a set of ids
Successors(ids) == {e.target : e \in {d \in KnownEdges : d.source \in ids}}

\* the layers of the graph: the entry ids, then the ids first reached after
\* one edge, after two edges, ...
RECURSIVE LayersFrom(_, _)
LayersFrom(seen, frontier) ==
    IF frontier = {} THEN <<>>
    ELSE <<frontier>> \o LayersFrom(seen \cup frontier,
                                   Successors(frontier) \ (seen \cup frontier))

HopLayers == LayersFrom({}, EntryIds)

\* for each id reachable from an entry node, the least number of directed
\* edges on a path from an entry node to it
HopDistances ==
    LET layers == HopLayers IN
    [id \in UNION {layers[k] : k \in 1..Len(layers)} |->
        (CHOOSE k \in 1..Len(layers) : id \in layers[k]) - 1]

ReachableIds == DOMAIN HopDistances

Abs(a) == IF a >= 0 THEN a ELSE -a

\* the index of the node that carries a known id
IndexOf(id) == CHOOSE i \in 1..Len(nodes) : nodes[i].id = id

LevelOf(id) == Val(nodes[IndexOf(id)].level)

----------------------------------------------------------------------------
(* Claims *)

\* C1: when layout() has returned, every node has a defined level, group,
\* importance and position, whatever the nodes and edges were.
C1_TotalDecoration ==
    Returned =>
        \A i \in 1..Len(nodes) :
            /\ IsDefined(nodes[i].level)
            /\ IsDefined(nodes[i].group)
            /\ IsDefined(nodes[i].importance)
            /\ IsDefined(nodes[i].position)

\* C1 witness: a first layout() has returned on a graph with a node reached
\* from an entry node, an unreachable node and an edge to an unknown id.
C1_Witness ==
    /\ Returned
    /\ ~reapplied /\ layoutCalls = 1
    /\ ReachableIds # EntryIds
    /\ NodeIds # ReachableIds
    /\ \E k \in 1..Len(edges) : edges[k].target \in UnknownIds

\* C2: when layout() has returned, every entry node has level 0 and importance 10.
C2_EntryDominance ==
    Returned =>
        \A i \in 1..Len(nodes) :
            nodes[i].is_entry =>
                /\ nodes[i].level = Some(0)
                /\ nodes[i].importance = Some(10)

\* C2 witness: layout() has returned on a graph where an entry node has an
\* incoming edge from a deeper node, which the traversal has processed.
C2_Witness ==
    /\ Returned
    /\ \E e \in KnownEdges : e.source \in ReachableIds \ EntryIds
                             /\ e.target \in EntryIds

\* C3: when layout() has returned, every node that no entry node reaches has
\* level 5 and importance 1; without entry nodes that is every node.
C3_FallbackUnreachable ==
    Returned =>
        LET reachable == ReachableIds IN
        \A i \in 1..Len(nodes) :
            nodes[i].id \notin reachable =>
                /\ nodes[i].level = Some(5)
                /\ nodes[i].importance = Some(1)

\* C3 witness: layout() has returned on a graph with an entry node, a node it
\* reaches, and an unreachable node that has an edge into the reached part.
C3_Witness ==
    /\ Returned
    /\ \E e \in KnownEdges : e.source \notin ReachableIds /\ e.target \in ReachableIds
    /\ ReachableIds # EntryIds

\* C4 (as claimed): when layout() has returned, every edge u -> v between
\* nodes with v reachable from an entry node has level(v) <= level(u) + 1,
\* whether u is reachable or carries the fallback level, with equality when v
\* was first discovered through u.
C4_BfsMonotonicity ==
    Returned =>
        LET reachable == ReachableIds IN
        \A e \in KnownEdges :
            e.target \in reachable =>
                /\ LevelOf(e.target) <= LevelOf(e.source) + 1
                /\ discoveredVia[IndexOf(e.target)] = IndexOf(e.source)
                      => LevelOf(e.target) = LevelOf(e.source) + 1

\* C5: when layout() has returned, the level of every node reachable from an
\* entry node is the least number of directed edges from an entry node to it.
C5_ShortestHopCount ==
    Returned =>
        LET distance == HopDistances IN
        \A i \in 1..Len(nodes) :
            nodes[i].id \in DOMAIN distance =>
                nodes[i].level = Some(distance[nodes[i].id])

\* C5 witness: layout() has returned on a graph where a node two or more hops
\* deep is reached by paths of different lengths (an edge into it comes from
\* a node that is not one level above it).
C5_Witness ==
    /\ Returned
    /\ LET distance == HopDistances IN
       \E e \in KnownEdges :
          /\ e.source \in DOMAIN distance
          /\ e.source # e.target
          /\ distance[e.target] >= 2
          /\ distance[e.source] >= distance[e.target]

\* C6 (as claimed): when layout() has returned, no node reachable from an
\* entry node has the level of a node that is unreachable.
C6_SentinelDistinct ==
    Returned =>
        LET reachable == ReachableIds IN
        \A i, j \in 1..Len(nodes) :
            (nodes[i].id \in reachable /\ nodes[j].id \notin reachable)
                => nodes[i].level # nodes[j].level

\* the two-node graph of the scenario: entry node A, non-entry node B, edge A -> B
ScenarioAB ==
    /\ Len(nodes) = 2
    /\ nodes[1].is_entry /\ ~nodes[2].is_entry
    /\ edges = <<[source |-> nodes[1].id, target |-> nodes[2].id]>>

\* C7 (as claimed): on the graph A -> B with entry node A, layout() yields
\* A.level = 0, A.importance = 10, B.level = 1 and B.importance = 8.
C7_ScenarioAsClaimed ==
    (ScenarioAB /\ Returned) =>
        /\ nodes[1].level = Some(0) /\ nodes[1].importance = Some(10)
        /\ nodes[2].level = Some(1) /\ nodes[2].importance = Some(8)

\* C7 (amended): on the graph A -> B with entry node A, layout() yields
\* A.level = 0, A.importance = 10, B.level = 1 and B.importance = 10.
C7_ScenarioAmended ==
    (ScenarioAB /\ Returned) =>
        /\ nodes[1].level = Some(0) /\ nodes[1].importance = Some(10)
        /\ nodes[2].level = Some(1) /\ nodes[2].importance = Some(10)

\* C7 witness: layout() has returned on the scenario graph, both files 'a/b'.
C7_Witness ==
    /\ ScenarioAB /\ Returned
    /\ nodes[1].file = DefaultFile /\ nodes[2].file = DefaultFile

\* the position of the last '/' of a string, 0 when it has none
LastSlash(chars) ==
    IF \E k \in 1..Len(chars) : chars[k] = Slash
    THEN CHOOSE k \in 1..Len(chars) :
            chars[k] = Slash /\ \A j \in (k + 1)..Len(chars) : chars[j] # Slash
    ELSE 0

\* the group the claim names for a file: what precedes the last '/' when the
\* file is a string with a '/', and 'root' otherwise
ExpectedGroup(file) ==
    IF file.kind = "string" /\ LastSlash(file.chars) > 0
    THEN SubSeq(file.chars, 1, LastSlash(file.chars) - 1)
    ELSE <<"r", "o", "o", "t">>

\* groupNodes has run in the current or an earlier layout() call
Grouped == pc = "calculatePositions" \/ Returned

\* C8: after groupNodes, a node whose file has more than one '/'-separated
\* segment has as group the segments but the last joined with '/' (the text
\* before the last '/'), and any other node has group 'root'.
C8_GroupingCorrect ==
    Grouped =>
        \A i \in 1..Len(nodes) :
            nodes[i].group = Some(ExpectedGroup(nodes[i].file))

\* C8 witness: groupNodes has just run for the first time on a node with file
\* 'a/a/a', grouped as 'a/a', and a node with file 'b', grouped as 'root'.
C8_Witness ==
    /\ pc = "calculatePositions" /\ layoutCalls = 1 /\ ~reapplied
    /\ nodes[1].file = StringFile(<<"a", "/", "a", "/", "a">>)
    /\ nodes[1].group = Some(<<"a", "/", "a">>)
    /\ nodes[2].file = StringFile(<<"b">>)
    /\ nodes[2].group = Some(<<"r", "o", "o", "t">>)

\* C9: when layout() has returned, two distinct nodes of the same level and
\* the same group have x-coordinates at least nodeSpacing (250) apart.
C9_NoOverlapWithinGroup ==
    Returned =>
        \A i, j \in 1..Len(nodes) :
            (i # j /\ nodes[i].level = nodes[j].level /\ nodes[i].group = nodes[j].group)
                => Abs(Val(nodes[i].position).x - Val(nodes[j].position).x) >= 250

\* C9 witness: layout() has returned with three nodes in one level and group.
C9_Witness ==
    /\ Returned
    /\ \E i, j, k \in 1..Len(nodes) :
          /\ i < j /\ j < k
          /\ nodes[i].level = nodes[j].level /\ nodes[j].level = nodes[k].level
          /\ nodes[i].group = nodes[j].group /\ nodes[j].group = nodes[k].group

\* C10: when applyHierarchicalLayout has run again on the same nodes and
\* edges, already decorated by earlier runs, every node has the level, group,
\* importance and position the first run gave it.
C10_ReapplySameOutput ==
    (Returned /\ reapplied /\ layoutCalls = 1) => nodes = Val(firstOut)

\* C10 witness: a second applyHierarchicalLayout has returned on a graph with
\* an entry node, a node reached from it and an unreachable node.
C10_Witness ==
    /\ Returned /\ reapplied /\ layoutCalls = 1
    /\ ReachableIds # EntryIds
    /\ NodeIds # ReachableIds

----------------------------------------------------------------------------
(* Claims about runs on a reordered or pruned input (SpecVariant) *)

\* the number of positions of a sequence that hold e
Occurrences(s, e) == Cardinality({k \in 1..Len(s) : s[k] = e})

\* two sequences list the same elements the same number of times
IsPermutation(s, t) ==
    /\ Len(s) = Len(t)
    /\ \A k \in 1..Len(s) : Occurrences(s, s[k]) = Occurrences(t, s[k])

\* the node of the first output that carries an id
FirstOutOf(id) ==
    LET first == Val(firstOut)
    IN first[CHOOSE j \in 1..Len(first) : first[j].id = id]

\* C11: a run over the same nodes and the same edges listed in another order
\* gives every node the level the first run gave it; of the decoration only
\* the x-coordinate may differ.
C11_LevelsOrderIndependent ==
    (Returned /\ IsPermutation(edges, firstEdges)) =>
        \A i \in 1..Len(nodes) :
            LET before == FirstOutOf(nodes[i].id) IN
            /\ nodes[i].level = before.level
            /\ nodes[i].importance = before.importance
            /\ nodes[i].group = before.group
            /\ Val(nodes[i].position).y = Val(before.position).y

\* C11 witness: a run has returned on the nodes and the edges in reversed
\* order, a node was discovered and a node has another x than in the first run.
C11_Witness ==
    /\ Returned
    /\ Len(nodes) >= 2
    /\ nodes[1].id # Val(firstOut)[1].id
    /\ edges # firstEdges /\ IsPermutation(edges, firstEdges)
    /\ \E i \in 1..Len(nodes) : discoveredVia[i] # 0
    /\ \E i \in 1..Len(nodes) :
          Val(nodes[i].position).x # Val(FirstOutOf(nodes[i].id).position).x

\* the input has an edge to or from an id that no node carries
HasDanglingEdge(es) == \E k \in 1..Len(es) : ~IsKnownEdge(nodes, es[k])

\* C12: a run on the edge list without the edges to or from unknown ids, the
\* nodes listed as before, gives every node the level, importance and
\* position of the run with those edges.
C12_DanglingEdgesInert ==
    (/\ Returned
     /\ edges = WithoutDanglingEdges(nodes, firstEdges)
     /\ \A i \in 1..Len(nodes) : nodes[i].id = Val(firstOut)[i].id) =>
        \A i \in 1..Len(nodes) :
            /\ nodes[i].level = Val(firstOut)[i].level
            /\ nodes[i].importance = Val(firstOut)[i].importance
            /\ nodes[i].position = Val(firstOut)[i].position

\* C12 witness: the first run had an edge from a node to an unknown id, and
\* a run without it has returned on a graph where a node was discovered and
\* a node stayed unreachable.
C12_Witness ==
    /\ Returned
    /\ HasDanglingEdge(firstEdges)
    /\ \E k \in 1..Len(firstEdges) :
          firstEdges[k].source \in NodeIds /\ firstEdges[k].target \notin NodeIds
    /\ edges = WithoutDanglingEdges(nodes, firstEdges)
    /\ \A i \in 1..Len(nodes) : nodes[i].id = Val(firstOut)[i].id
    /\ \E i \in 1..Len(nodes) : discoveredVia[i] # 0
    /\ NodeIds # ReachableIds

----------------------------------------------------------------------------
(* Claims about the steps of one layout() *)

\* the data of a node that the caller supplied
InputData(n) == [id |-> n.id, file |-> n.file, is_entry |-> n.is_entry]

\* C13: no step of layout() changes the length of the node sequence, the id
\* or the data (file, metadata) of the node at any place of it, or the edge
\* list; whatever a step writes is a level, group, importance or position.
C13_FrameOfLayout ==
    [][/\ Len(nodes') = Len(nodes)
       /\ \A i \in 1..Len(nodes) : InputData(nodes'[i]) = InputData(nodes[i])
       /\ edges' = edges]_vars

\* C13 witness: layout() has returned twice on one instance; the nodes are
\* listed by id as given, although a later node of the sequence was placed
\* to the left of an earlier one of its level.
C13_Witness ==
    /\ Returned
    /\ layoutCalls = 2
    /\ edges # <<>>
    /\ \A i \in 1..Len(nodes) : nodes[i].id = i
    /\ \E i, j \in 1..Len(nodes) :
          /\ i < j
          /\ nodes[i].level = nodes[j].level
          /\ Val(nodes[j].position).x < Val(nodes[i].position).x

\* C14: a layout() that has been called returns: the queue of the breadth-first
\* pass empties and the remaining steps complete, on graphs with cycles,
\* self-loops and parallel edges too.
C14_LayoutTerminates == (pc # "idle") ~> Returned

\* C14 witness: layout() has returned on the ring 1 -> 2 -> 1 with a self-loop
\* on node 2 and every edge of the ring listed twice; node 1 is the entry node
\* and node 2 was discovered from it.
C14_Witness ==
    /\ Returned
    /\ EntryIds = {1}
    /\ edges = <<[source |-> 2, target |-> 2],
                 [source |-> 1, target |-> 2], [source |-> 2, target |-> 1],
                 [source |-> 1, target |-> 2], [source |-> 2, target |-> 1]>>
    /\ visited = {1, 2}
    /\ discoveredVia[2] = 1

\* max(0, 10 - 2 * p), written out
Decay(p) == IF p >= 5 THEN 0 ELSE 10 - 2 * p

\* C15: a node the breadth-first pass discovered is no entry node, and with p
\* the level of the node it was discovered from it has level p + 1 and
\* importance max(0, 10 - 2 * p); so when layout() has returned, every node of
\* level 1 has importance 10 and every node of level 6 or more importance 0.
C15_DecayFromParentLevel ==
    /\ \A i \in 1..Len(nodes) :
          discoveredVia[i] # 0 =>
              LET p == Val(nodes[discoveredVia[i]].level) IN
              /\ ~nodes[i].is_entry
              /\ nodes[i].level = Some(p + 1)
              /\ nodes[i].importance = Some(Decay(p))
    /\ Returned =>
          \A i \in 1..Len(nodes) :
              /\ Val(nodes[i].level) = 1 => Val(nodes[i].importance) = 10
              /\ Val(nodes[i].level) >= 6 => Val(nodes[i].importance) = 0

\* C15 witness: layout() has returned on a graph with discovered nodes at
\* level 1 (importance 10), level 5 (importance 2), level 6 (importance 0,
\* parent at level 5) and level 8 (importance 0, parent at level 7).
C15_Witness ==
    /\ Returned
    /\ \A l \in {1, 5, 6, 8} :
          \E i \in 1..Len(nodes) :
              /\ discoveredVia[i] # 0
              /\ nodes[i].level = Some(l)
              /\ nodes[discoveredVia[i]].level = Some(l - 1)
              /\ nodes[i].importance = Some(IF l = 1 THEN 10 ELSE IF l = 5 THEN 2 ELSE 0)

\* the queue items a step of the loop pushed: queue' behind what was left of queue
Pushed ==
    IF queue = <<>> THEN <<>> ELSE SubSeq(queue', Len(queue), Len(queue'))

\* C16: in a step of assignLevels (an iteration of the loop, or the default
\* pass) no node whose id is in visited has its level or importance written,
\* visited loses no id, and every queue item pushed is a node that was not
\* visited, is visited now and is pushed once; the queue the entry nodes are
\* seeded into holds no node twice.
C16_NeverReleveled ==
    [][/\ pc = "bfs" =>
            /\ visited \subseteq visited'
            /\ \A i \in 1..Len(nodes) :
                  nodes[i].id \in visited =>
                      /\ nodes'[i].level = nodes[i].level
                      /\ nodes'[i].importance = nodes[i].importance
            /\ \A k \in 1..Len(Pushed) :
                  /\ nodes[Pushed[k].node].id \notin visited
                  /\ nodes[Pushed[k].node].id \in visited'
                  /\ \A j \in 1..Len(Pushed) :
                        Pushed[j].node = Pushed[k].node => j = k
       /\ (pc = "idle" /\ pc' = "bfs") =>
            \A j, k \in 1..Len(queue') : queue'[j].node = queue'[k].node => j = k
      ]_vars

\* C16 witness: the first assignLevels has just ended on a graph with an edge
\* u -> v between visited nodes where v was discovered from another node than
\* u and at a level that is not one more than the level of u: the edge was
\* processed when v was leveled already.
C16_Witness ==
    /\ pc = "groupNodes"
    /\ layoutCalls = 1
    /\ ~reapplied
    /\ \E k \in 1..Len(edges) :
          /\ edges[k].source \in visited
          /\ edges[k].target \in visited
          /\ LET u == IndexOf(edges[k].source)
                 v == IndexOf(edges[k].target)
             IN /\ discoveredVia[v] \notin {0, u}
                /\ Val(nodes[v].level) # Val(nodes[u].level) + 1

\* the levels that hold at least one node
OccupiedLevels == {Val(nodes[i].level) : i \in 1..Len(nodes)}

\* C17: when layout() has returned, the y of a node is 50 + 300 * k with k the
\* number of distinct occupied levels strictly smaller than the node's level
\* (so equal levels share one y, a smaller level has a strictly smaller y,
\* and gaps in the level numbers leave no empty row).
C17_RowOfLevel ==
    Returned =>
        LET occupied == OccupiedLevels IN
        \A i \in 1..Len(nodes) :
            Val(nodes[i].position).y =
                50 + 300 * Cardinality({l \in occupied : l < Val(nodes[i].level)})

\* C17 witness: layout() has returned with nodes at exactly the levels 0, 1
\* and 5, placed at y = 50, 350 and 650, the level-5 node listed first.
C17_Witness ==
    /\ Returned
    /\ OccupiedLevels = {0, 1, 5}
    /\ nodes[1].level = Some(5)
    /\ \A i \in 1..Len(nodes) :
          Val(nodes[i].position).y =
              CASE Val(nodes[i].level) = 0 -> 50
                [] Val(nodes[i].level) = 1 -> 350
                [] Val(nodes[i].level) = 5 -> 650

\* the nodes of level l whose group field is g
GroupMembers(l, g) ==
    {i \in 1..Len(nodes) : Val(nodes[i].level) = l /\ Val(nodes[i].group) = g}

Min(S) == CHOOSE m \in S : \A n \in S : m <= n

\* the sum over the groups gs of level l of max(250 * |g|, 400)
RECURSIVE WidthSum(_, _)
WidthSum(l, gs) ==
    IF gs = {} THEN 0
    ELSE LET g == CHOOSE h \in gs : TRUE
             width == 250 * Cardinality(GroupMembers(l, g))
         IN (IF width >= 400 THEN width ELSE 400) + WidthSum(l, gs \ {g})

\* C18 (as claimed): when layout() has returned, in every level the leftmost
\* node of a group is at x = 50 plus the sum of max(250 * |g|, 400) over the
\* groups g of that level whose first node comes earlier in the node sequence
\* (at x = 50 for the group that comes first).
C18_GroupOrderAndOffset ==
    Returned =>
        \A i \in 1..Len(nodes) :
            LET l == Val(nodes[i].level)
                mine == GroupMembers(l, Val(nodes[i].group))
                earlier == {Val(nodes[j].group) :
                              j \in {k \in 1..(Min(mine) - 1) : Val(nodes[k].level) = l}}
            IN Min({Val(nodes[j].position).x : j \in mine}) = 50 + WidthSum(l, earlier)

\* two different nodes with the same level and the same group field
SameLevelAndGroup(i, j) ==
    /\ i # j
    /\ nodes[i].level = nodes[j].level
    /\ nodes[i].group = nodes[j].group

\* C19: when layout() has returned, of two nodes with the same level and the
\* same group the one of strictly higher importance has the strictly smaller
\* x, and of two of equal importance the one listed earlier in the node
\* sequence has the strictly smaller x.
C19_ImportanceOrder ==
    Returned =>
        \A i, j \in 1..Len(nodes) :
            SameLevelAndGroup(i, j) =>
                /\ Val(nodes[i].importance) > Val(nodes[j].importance) =>
                      Val(nodes[i].position).x < Val(nodes[j].position).x
                /\ (Val(nodes[i].importance) = Val(nodes[j].importance) /\ i < j) =>
                      Val(nodes[i].position).x < Val(nodes[j].position).x

\* C19 witness: layout() has returned with a later node of the sequence that
\* has higher importance than an earlier one of its level and group and is
\* placed to its left, and with two nodes of equal importance in one level
\* and group.
C19_Witness ==
    /\ Returned
    /\ \E i, j \in 1..Len(nodes) :
          /\ SameLevelAndGroup(i, j)
          /\ i < j
          /\ Val(nodes[j].importance) > Val(nodes[i].importance)
          /\ Val(nodes[j].position).x < Val(nodes[i].position).x
    /\ \E i, j \in 1..Len(nodes) :
          /\ SameLevelAndGroup(i, j)
          /\ Val(nodes[i].importance) = Val(nodes[j].importance)

\* C20: when layout() has returned, two distinct nodes of different levels
\* have different y, and two distinct nodes of the same level, in one group or
\* in two, have x-coordinates at least 250 apart; so no two share a position.
C20_NoOverlap ==
    Returned =>
        \A i, j \in 1..Len(nodes) :
            i # j =>
                LET p == Val(nodes[i].position)
                    q == Val(nodes[j].position)
                IN /\ p # q
                   /\ nodes[i].level # nodes[j].level => p.y # q.y
                   /\ nodes[i].level = nodes[j].level => Abs(p.x - q.x) >= 250

\* C20 witness: layout() has returned with two nodes of one level in different
\* groups, 400 apart, and a node of another level with the x of one of them.
C20_Witness ==
    /\ Returned
    /\ \E i, j, k \in 1..Len(nodes) :
          /\ nodes[i].level = nodes[j].level
          /\ nodes[i].group # nodes[j].group
          /\ Val(nodes[j].position).x - Val(nodes[i].position).x = 400
          /\ nodes[k].level # nodes[i].level
          /\ Val(nodes[k].position).x = Val(nodes[i].position).x
          /\ Val(nodes[k].position).y # Val(nodes[i].position).y

----------------------------------------------------------------------------
(* Claims about repeated layout(), importance and clusters *)

\* every list of the index m holds no node twice
HoldsEachOnce(m) ==
    \A k \in 1..Len(m) :
        \A a, b \in 1..Len(m[k].val) : m[k].val[a] = m[k].val[b] => a = b

\* C21 (as claimed): when layout() has returned, after any number of calls on
\* the instance, every node has the position the first call gave it, and the
\* indices nodesByLevel and nodesByGroup hold each node once per level/group.
C21_RepeatedLayoutSame ==
    Returned =>
        /\ \A i \in 1..Len(nodes) : nodes[i].position = Val(firstOut)[i].position
        /\ HoldsEachOnce(nodesByLevel)
        /\ HoldsEachOnce(nodesByGroup)

\* the importance the claim gives a node of a level, reached or not
ImportanceAt(level, reached) ==
    CASE level \in {0, 1} -> 10
      [] level = 2 -> 8
      [] level = 3 -> 6
      [] level = 4 -> 4
      [] level = 5 -> IF reached THEN 2 ELSE 1
      [] level >= 6 -> 0

\* C22: when layout() has returned, the importance of a node is the one its
\* level gives (10, 10, 8, 6, 4 for levels 0 to 4, 0 from level 6 on), at
\* level 5 it is 2 for a node reachable from an entry node and 1 otherwise,
\* and the nodes of importance 1 are exactly the unreachable ones.
C22_ImportanceByLevel ==
    Returned =>
        LET reachable == ReachableIds IN
        \A i \in 1..Len(nodes) :
            /\ Val(nodes[i].importance) =
                  ImportanceAt(Val(nodes[i].level), nodes[i].id \in reachable)
            /\ Val(nodes[i].importance) = 1 <=> nodes[i].id \notin reachable

\* C22 witness: layout() has returned with a reachable node and an
\* unreachable node both at level 5, of importance 2 and 1, and with
\* reachable nodes at level 4 and at level 6.
C22_Witness ==
    /\ Returned
    /\ \E i, j, k, l \in 1..Len(nodes) :
          /\ nodes[i].level = Some(5) /\ discoveredVia[i] # 0
          /\ nodes[i].importance = Some(2)
          /\ nodes[j].level = Some(5) /\ nodes[j].id \notin visited
          /\ nodes[j].importance = Some(1)
          /\ nodes[k].level = Some(4) /\ nodes[k].importance = Some(4)
          /\ nodes[l].level = Some(6) /\ nodes[l].importance = Some(0)

\* the clusters calculatePositions forms for the level of node i
ClustersOf(i) ==
    GroupsAtLevel(nodes, MapGet(nodesByLevel, Val(nodes[i].level)), 1, <<>>)

\* nodes i and j are pushed into one cluster of their level
InOneCluster(i, j) ==
    \E c \in 1..Len(ClustersOf(i)) :
        /\ \E a \in 1..Len(ClustersOf(i)[c].val) : ClustersOf(i)[c].val[a] = i
        /\ \E b \in 1..Len(ClustersOf(i)[c].val) : ClustersOf(i)[c].val[b] = j

\* C23 (as claimed): when layout() has returned, two nodes of the same level
\* are placed in one cluster if and only if their group fields are equal,
\* the empty group of a file such as '/b' included.
C23_ClusterIsGroup ==
    Returned =>
        \A i, j \in 1..Len(nodes) :
            nodes[i].level = nodes[j].level =>
                (InOneCluster(i, j) <=> nodes[i].group = nodes[j].group)

----------------------------------------------------------------------------
(* Claims about the visualizer (SpecView) *)

\* the ids of a sequence of nodes
IdsOf(ns) == {ns[i].id : i \in 1..Len(ns)}

\* the node ids of the graphData prop
GraphIds == IF IsDefined(graphData) THEN IdsOf(Val(graphData)) ELSE {}

\* C24 (as claimed): after any sequence of view-level selections and Auto
\* Layout clicks, the ids in the nodes state are the node ids of graphData,
\* each once, so the view 'all' shows every node of the graph.
C24_LayoutKeepsNodes ==
    /\ IdsOf(flowNodes) = GraphIds
    /\ Len(flowNodes) = Cardinality(GraphIds)
    /\ IdsOf(FilteredNodes(flowNodes, "all")) = GraphIds

----------------------------------------------------------------------------
(* Claims about analyzeCodebase and the Index page (SpecIndex) *)

\* the reply to request k of the running or last call
ReplyTo(k) == Val(requests[k].reply)

\* request k is a poll that returned the status
PollReturned(k, status) ==
    /\ requests[k].method = "GET"
    /\ IsDefined(requests[k].reply)
    /\ ReplyTo(k).kind = "data"
    /\ ReplyTo(k).status = status

\* C25 (as claimed): when the last poll of a call returned 'failed', the call
\* has rejected with the message 'Analysis failed' and has not resolved.
C25_FailedPollRejects ==
    (requests # <<>> /\ PollReturned(Len(requests), "failed")) =>
        settled = Some(Rejected("Analysis failed"))

\* C26: the first request of a call is the POST and every later one a GET
\* with the job_id the POST returned; no request follows a poll that returned
\* 'completed' or 'failed'; the call has resolved only if its last request
\* is a poll that returned 'completed', and then with that poll's result.
C26_SubmitThenPoll ==
    /\ requests # <<>> => requests[1].method = "POST"
    /\ \A k \in 2..Len(requests) :
          /\ requests[k].method = "GET"
          /\ IsDefined(requests[1].reply)
          /\ ReplyTo(1).kind = "data"
          /\ requests[k].job = ReplyTo(1).job_id
    /\ \A k \in 1..(Len(requests) - 1) :
          /\ IsDefined(requests[k].reply)
          /\ ~PollReturned(k, "completed")
          /\ ~PollReturned(k, "failed")
    /\ (IsDefined(settled) /\ Val(settled).kind = "resolved") =>
          /\ Len(requests) >= 2
          /\ PollReturned(Len(requests), "completed")
          /\ Val(settled).value = ReplyTo(Len(requests)).result

\* C26 witness: a call has resolved with 'result2' after the submit returned
\* 'job2', a first poll returned 'pending' and a second 'completed'.
C26_Witness ==
    /\ settled = Some(Resolved(Some("result2")))
    /\ Len(requests) = 3
    /\ ReplyTo(1).job_id = Some("job2")
    /\ PollReturned(2, "pending")
    /\ PollReturned(3, "completed")
    /\ requests[2].job = Some("job2") /\ requests[3].job = Some("job2")
    /\ analysisResult = Some("result2")

\* C27 (as claimed): every analysis was started while apiStatus was 'online'
\* and no other analysis was in progress, by the button or by the Enter key,
\* and with a path that is not empty or blank.
C27_StartOnlyWhenOnline ==
    IsDefined(started) =>
        /\ Val(started).apiStatus = "online"
        /\ ~Val(started).busy
        /\ \E k \in 1..Len(Val(started).folderPath) :
              Val(started).folderPath[k] # Space

============================================================================
